---- MODULE Spec2Model ----
(***************************************************************************)
(* Model of the rescue_vision target prioritizer (src/src/vision_core.py),  *)
(* of the sequencer that drives it (src/src/main.py), of the serial        *)
(* transport and of the colour segmenter.                                  *)
(*                                                                         *)
(*  Spec      get_best_target as a function of its inputs: Init draws the  *)
(*            configuration, the detected balls and the held balls, the    *)
(*            actions call get_best_target and set_first_pick_done.        *)
(*  SpecCore  a VisionCore object under an arbitrary caller: frame         *)
(*            acquisition, frame processing, the run loop, release.        *)
(*  SpecCoreFair  SpecCore with weak fairness of the iterations of run.    *)
(*  SpecMain  the five-state sequencer of main() and the calls it makes    *)
(*            on its VisionSerial.                                         *)
(*  SpecMainFair  SpecMain with weak fairness of the loop of main().       *)
(*  SpecSelect  get_best_target and send_multiple_balls on the same list.  *)
(*  SpecSerial  a VisionSerial object (src/src/vision_serial.py): Init     *)
(*            draws the method that the caller calls and its arguments,    *)
(*            the actions call it, on a link that opens, fails and closes. *)
(*  SpecDetector  a ColorDetector object (src/src/color_detector.py)       *)
(*            under an arbitrary caller.                                   *)
(***************************************************************************)
EXTENDS Integers, Sequences, FiniteSets, TLC

VARIABLES
    team_color,      \* VisionCore.team_color
    enemy_color,     \* VisionCore.enemy_color
    ball_priorities, \* VisionCore.ball_priorities
    safety_zones,    \* VisionCore.safety_zones
    first_pick,      \* VisionCore.first_pick
    balls,           \* the list of detected balls handed to get_best_target
    current_balls,   \* the list of held balls handed to get_best_target
    best_target,     \* what get_best_target returned last
    pc,              \* position of the caller of get_best_target
    camera,          \* VisionCore.camera: "open", "closed" or "none"
    restart_count,   \* local of VisionCore.run
    run_pc,          \* position of VisionCore.run
    frame_reads,     \* get_frame: the reads and init_camera calls of a call that
                     \* has just returned None; NoReads once a frame came back
    state,           \* sequencer state of main()
    no_ball_count,   \* main(): consecutive frames without a target
    approach_frames, \* main(): frames spent in the approach state
    serial_call,     \* main(): the serial method called in the last iteration
    grabs_done,      \* main(): how often the grasp state has been completed
    main_pc,         \* position of main()
    ser,             \* VisionSerial.ser: "none", "open" or "closed"
    is_connected,    \* VisionSerial.is_connected
    serial_op,       \* the VisionSerial method that the caller calls
    serial_args,     \* its arguments
    wire,            \* the byte strings it handed to ser.write
    ret,             \* what its last call returned, or that it raised
    connect_attempt, \* whether it called connect, and how that ended
    rx,              \* the bytes that receive_data read
    base_hsv_thresholds,      \* ColorDetector.base_hsv_thresholds
    hsv_thresholds,           \* ColorDetector.hsv_thresholds
    light_adaptation_enabled, \* ColorDetector.light_adaptation_enabled
    last_light_level,         \* ColorDetector.last_light_level
    adaptation_factor,        \* ColorDetector.adaptation_factor, in tenths
    light_change_threshold,   \* ColorDetector.light_change_threshold
    update_counter,           \* ColorDetector.update_counter
    detect_op,       \* the ColorDetector method called last
    detect_args,     \* its arguments
    detect_ret       \* what it returned, or that it raised

vars == <<team_color, enemy_color, ball_priorities, safety_zones, first_pick,
          balls, current_balls, best_target, pc, camera, restart_count, run_pc,
          frame_reads, state, no_ball_count, approach_frames, serial_call, grabs_done,
          main_pc, ser, is_connected, serial_op, serial_args, wire, ret,
          connect_attempt, rx, base_hsv_thresholds, hsv_thresholds,
          light_adaptation_enabled, last_light_level, adaptation_factor,
          light_change_threshold, update_counter, detect_op, detect_args,
          detect_ret>>

coreVars == <<camera, restart_count, run_pc, frame_reads>>
mainVars == <<state, no_ball_count, approach_frames, serial_call, grabs_done,
              main_pc>>
configVars == <<team_color, enemy_color, ball_priorities, safety_zones>>
serialVars == <<ser, is_connected, serial_op, serial_args, wire, ret,
                connect_attempt, rx>>
detectorVars == <<base_hsv_thresholds, hsv_thresholds, light_adaptation_enabled,
                  last_light_level, adaptation_factor, light_change_threshold,
                  update_counter, detect_op, detect_args, detect_ret>>

----------------------------------------------------------------------------
(* Bounds of the model *)

MaxBalls == 2          \* detected balls per call of get_best_target
MaxHeld == 4           \* held balls per call of get_best_target

----------------------------------------------------------------------------
(* Colour classes, balls and positions *)

Colors == {"red", "blue", "yellow", "black"}

image_width == 640
image_height == 480

\* Sample ball centres on the 640x480 image.
FreePoint == <<320, 400>>       \* outside every zone and outside the fence
BlueZonePoint == <<500, 100>>   \* inside blue_safety_zone
RedZonePoint == <<500, 350>>    \* inside red_safety_zone
FencePoint == <<25, 100>>       \* centre of the ball drawn inside the fence

Ball(c, p, r) == [color |-> c, x |-> p[1], y |-> p[2], radius |-> r]

\* "No ball": the None that get_best_target returns.
None == [color |-> "none", x |-> -1, y |-> -1, radius |-> 0, priority |-> 0]

\* A ball after get_prioritized_balls wrote ball['priority'].
WithPriority(ball, p) ==
    [color |-> ball.color, x |-> ball.x, y |-> ball.y,
     radius |-> ball.radius, priority |-> p]

\* The exclusion fence of the fence test image: the left fence rectangle.
InFence(ball) == 0 <= ball.x /\ ball.x <= 50 /\ 0 <= ball.y /\ ball.y <= 480

----------------------------------------------------------------------------
(* Configuration *)

NoKey == 0 - 1  \* marks a key that the ball_priorities dict does not have

PriorityKeys == {"team", "enemy", "red", "blue", "yellow", "black"}

\* dict.get(key, default)
Get(dict, key, default) == IF dict[key] = NoKey THEN default ELSE dict[key]

\* ConfigLoader._load_strategy_config, no strategy file: the default table.
DefaultPriorities ==
    [k \in PriorityKeys |->
        CASE k = "black" -> 200
          [] k = "yellow" -> 150
          [] k = "team" -> 100
          [] k = "enemy" -> 0
          [] OTHER -> NoKey]

\* The fallback configuration {"team_color": DEFAULT_TEAM}: no table at all.
EmptyPriorities == [k \in PriorityKeys |-> NoKey]

\* A strategy file whose table is keyed by colour names as well.
ColourKeyedPriorities ==
    [k \in PriorityKeys |->
        CASE k = "team" -> 50
          [] k = "red" -> 80
          [] k = "blue" -> 80
          [] k = "yellow" -> 120
          [] k = "black" -> 10
          [] OTHER -> NoKey]

Zone(n, x1, y1, x2, y2) ==
    [name |-> n, enabled |-> TRUE, type |-> "rectangle",
     pixel_points |-> << <<x1, y1>>, <<x2, y2>> >>]

\* VisionCore.__init__ on the default safety_zones array:
\* (int(x*w), int(y*h)) and (int((x+width)*w), int((y+height)*h)).
DefaultZones ==
    << Zone("blue_safety_zone", 448, 48, 640, 240),
       Zone("red_safety_zone", 448, 240, 640, 432) >>

\* VisionCore.__init__ without a safety_zones array: the legacy 600x300 zone.
LegacyZones == << Zone("legacy_safety_zone", 0, 0, 600, 300) >>

Configs ==
    { [ball_priorities |-> DefaultPriorities, safety_zones |-> DefaultZones],
      [ball_priorities |-> EmptyPriorities, safety_zones |-> LegacyZones],
      [ball_priorities |-> ColourKeyedPriorities, safety_zones |-> DefaultZones] }

----------------------------------------------------------------------------
(* The target prioritizer: VisionCore, vision_core.py *)

\* calculate_ball_priority without the enemy-colour test.
calculate_ball_priority_no_enemy_test(ball) ==
    IF first_pick
    THEN (IF ball.color = team_color THEN 1000 ELSE 0)
    ELSE IF ball.color = team_color
         THEN Get(ball_priorities, "team", 100)
         ELSE Get(ball_priorities, ball.color, 0)

\* calculate_ball_priority without the first-pick branch.
calculate_ball_priority_no_first_pick(ball) ==
    IF ball.color = enemy_color THEN 0
    ELSE IF ball.color = team_color
         THEN Get(ball_priorities, "team", 100)
         ELSE Get(ball_priorities, ball.color, 0)

\* VisionCore.calculate_ball_priority
calculate_ball_priority(ball) ==
    IF ball.color = enemy_color THEN 0
    ELSE IF first_pick
         THEN (IF ball.color = team_color THEN 1000 ELSE 0)
         ELSE IF ball.color = team_color
              THEN Get(ball_priorities, "team", 100)
              ELSE Get(ball_priorities, ball.color, 0)

RECURSIVE InsertByPriority_before_equals(_, _)
InsertByPriority_before_equals(sorted, ball) ==
    IF sorted = <<>> THEN <<ball>>
    ELSE IF Head(sorted).priority > ball.priority
         THEN <<Head(sorted)>> \o InsertByPriority_before_equals(Tail(sorted), ball)
         ELSE <<ball>> \o sorted

\* sorted(balls, key=priority, reverse=True): a stable sort, so a ball goes
\* behind every ball already placed whose priority is at least its own.
RECURSIVE InsertByPriority(_, _)
InsertByPriority(sorted, ball) ==
    IF sorted = <<>> THEN <<ball>>
    ELSE IF Head(sorted).priority >= ball.priority
         THEN <<Head(sorted)>> \o InsertByPriority(Tail(sorted), ball)
         ELSE <<ball>> \o sorted

RECURSIVE SortedByPriority(_)
SortedByPriority(scored) ==
    IF scored = <<>> THEN <<>>
    ELSE InsertByPriority(SortedByPriority(SubSeq(scored, 1, Len(scored) - 1)),
                          scored[Len(scored)])

\* get_prioritized_balls without the sort.
get_prioritized_balls_unsorted(bs) ==
    [i \in 1..Len(bs) |-> WithPriority(bs[i], calculate_ball_priority(bs[i]))]

\* VisionCore.get_prioritized_balls
get_prioritized_balls(bs) ==
    SortedByPriority(
        [i \in 1..Len(bs) |-> WithPriority(bs[i], calculate_ball_priority(bs[i]))])

\* check_transfer_limit with the limit test off by one (> instead of >=).
check_transfer_limit_off_by_one(held, target_ball) ==
    IF target_ball.color = "yellow"
       \/ \E i \in 1..Len(held) : held[i].color = "yellow"
    THEN TRUE
    ELSE LET current_count ==
                 Cardinality({i \in 1..Len(held) :
                                 held[i].color \in {team_color, "black"}})
         IN  ~(target_ball.color \in {team_color, "black"} /\ current_count > 4)

\* VisionCore.check_transfer_limit
check_transfer_limit(held, target_ball) ==
    IF target_ball.color = "yellow"
       \/ \E i \in 1..Len(held) : held[i].color = "yellow"
    THEN TRUE
    ELSE LET current_count ==
                 Cardinality({i \in 1..Len(held) :
                                 held[i].color \in {team_color, "black"}})
         IN  ~(target_ball.color \in {team_color, "black"} /\ current_count >= 4)

\* check_yellow_ball_restriction that lets other balls join a held yellow one.
check_yellow_ball_restriction_no_held_test(held, target_ball) ==
    LET yellow_count ==
            Cardinality({i \in 1..Len(held) : held[i].color = "yellow"})
    IN  IF target_ball.color = "yellow"
        THEN ~(yellow_count >= 1) /\ ~(Len(held) > 0)
        ELSE TRUE

\* check_yellow_ball_restriction without the travels-alone test.
check_yellow_ball_restriction_not_alone(held, target_ball) ==
    LET yellow_count ==
            Cardinality({i \in 1..Len(held) : held[i].color = "yellow"})
    IN  IF target_ball.color = "yellow"
        THEN ~(yellow_count >= 1)
        ELSE ~(\E i \in 1..Len(held) : held[i].color = "yellow")

\* VisionCore.check_yellow_ball_restriction
check_yellow_ball_restriction(held, target_ball) ==
    LET yellow_count ==
            Cardinality({i \in 1..Len(held) : held[i].color = "yellow"})
    IN  IF target_ball.color = "yellow"
        THEN ~(yellow_count >= 1) /\ ~(Len(held) > 0)
        ELSE ~(\E i \in 1..Len(held) : held[i].color = "yellow")

\* The rectangle test of VisionCore.is_ball_in_safety_zone for one zone.
InZone(zone, ball) ==
    /\ zone.enabled
    /\ zone.pixel_points # <<>>
    /\ zone.type = "rectangle"
    /\ Len(zone.pixel_points) >= 2
    /\ LET top_left == zone.pixel_points[1]
           bottom_right == zone.pixel_points[2]
       IN  /\ top_left[1] <= ball.x /\ ball.x <= bottom_right[1]
           /\ top_left[2] <= ball.y /\ ball.y <= bottom_right[2]

\* VisionCore.is_ball_in_safety_zone
is_ball_in_safety_zone(ball) ==
    IF safety_zones = <<>> THEN FALSE
    ELSE \E i \in 1..Len(safety_zones) : InZone(safety_zones[i], ball)

\* The zone filter at the head of get_best_target.
filtered_balls(bs) == SelectSeq(bs, LAMBDA b : ~is_ball_in_safety_zone(b))

\* The candidate loop of get_best_target: the first ball of the sorted list
\* with a positive priority that passes both checks.
RECURSIVE FirstAllowed(_, _)
FirstAllowed(prioritized, held) ==
    IF prioritized = <<>> THEN None
    ELSE LET ball == Head(prioritized)
         IN  IF ball.priority <= 0
               THEN FirstAllowed(Tail(prioritized), held)
             ELSE IF ~check_yellow_ball_restriction(held, ball)
               THEN FirstAllowed(Tail(prioritized), held)
             ELSE IF ~check_transfer_limit(held, ball)
               THEN FirstAllowed(Tail(prioritized), held)
             ELSE ball

\* VisionCore.get_best_target
get_best_target(bs, held) ==
    IF bs = <<>> THEN None
    ELSE IF filtered_balls(bs) = <<>> THEN None
    ELSE FirstAllowed(get_prioritized_balls(filtered_balls(bs)), held)

----------------------------------------------------------------------------
(* The transport: VisionSerial, vision_serial.py *)

START_BYTE == 170      \* 0xAA
END_BYTE == 187        \* 0xBB

actual_diameter_mm == 40
reference_distance_mm == 500

center_x == image_width \div 2
center_y == image_height \div 2

Min(a, b) == IF a <= b THEN a ELSE b
Max(a, b) == IF a >= b THEN a ELSE b

RECURSIVE Sum(_)
Sum(s) == IF s = <<>> THEN 0 ELSE Head(s) + Sum(Tail(s))

\* v.to_bytes(2, byteorder='little', signed=True) for v in -32768..32767
to_bytes_signed(v) == LET u == v % 65536 IN <<u % 256, u \div 256>>

\* v.to_bytes(2, byteorder='little', signed=False) for v in 0..65535
to_bytes_unsigned(v) == <<v % 256, v \div 256>>

color_to_id(c) ==
    CASE c = "red" -> 0 [] c = "blue" -> 1 [] c = "yellow" -> 2 [] c = "black" -> 3

\* VisionSerial.priorities[c] after set_team_color(team), NoKey for a key that
\* the dict does not have; the dict is {} when no team is set
priorities(team, c) ==
    CASE team = "none" -> NoKey
      [] c = "yellow" -> 30
      [] c = "black" -> 20
      [] c = team -> 10
      [] c \in {"red", "blue"} -> 0
      [] OTHER -> NoKey

\* What a method returns: True, False, None, an int, a decoded command; or
\* that it raised.
Returns(kind) == [kind |-> kind, value |-> 0, cmd_type |-> 0, params |-> <<>>]
ReturnsTrue == Returns("true")
ReturnsFalse == Returns("false")
ReturnsNone == Returns("none")
Raises == Returns("raised")
ReturnsInt(n) == [Returns("int") EXCEPT !.value = n]
ReturnsCommand(c, p) == [Returns("command") EXCEPT !.cmd_type = c, !.params = p]

\* The link of a VisionSerial object, and the effect of a method on it.
Link(s, c) == [ser |-> s, is_connected |-> c]
Out(link, writes, r) == [link |-> link, wire |-> writes, ret |-> r]

disconnect(link) ==
    Link(IF link.ser = "open" THEN "closed" ELSE link.ser, FALSE)

\* can_open: whether serial.Serial(...) gives an open port this time
connect(link, can_open) ==
    IF can_open THEN Link("open", TRUE) ELSE disconnect(link)

NeedsConnect(link) == ~link.is_connected \/ link.ser # "open"

\* the link after ensure_connected; its return value is is_connected
ensure_connected(link, can_open) ==
    IF NeedsConnect(link) THEN connect(link, can_open) ELSE link

Attempt(link, can_open) ==
    IF ~NeedsConnect(link) THEN "not_needed"
    ELSE IF can_open THEN "opened" ELSE "failed"

clamp_int16_from_zero(v) == Max(0, Min(v, 32767))

clamp_int16(v) == Max(-32768, Min(v, 32767))

clamp_uint16(v) == Max(0, Min(v, 65535))

\* write_ok: whether ser.write returns instead of raising
send_ball_data(link, dx, dy, ball_color, distance, can_open, write_ok) ==
    LET l1 == ensure_connected(link, can_open)
        packet == <<START_BYTE>>
                    \o to_bytes_signed(clamp_int16(dx))
                    \o to_bytes_signed(clamp_int16(dy))
                    \o <<color_to_id(ball_color), 0>>
                    \o to_bytes_unsigned(clamp_uint16(distance))
                    \o <<END_BYTE>>
    IN  IF ~l1.is_connected THEN Out(l1, <<>>, ReturnsFalse)
        ELSE IF ball_color \notin Colors THEN Out(l1, <<>>, ReturnsFalse)
        ELSE IF write_ok THEN Out(l1, <<packet>>, ReturnsTrue)
        ELSE Out(disconnect(l1), <<>>, ReturnsFalse)

estimate_distance_unclamped(pixel_radius) ==
    IF pixel_radius <= 0 THEN 1000
    ELSE (actual_diameter_mm * reference_distance_mm) \div (pixel_radius * 2)

\* int(max(100, min(q, 2000))) of the quotient q = 20000 / pixel_diameter:
\* the comparisons are made on the quotient, the truncation comes last.
estimate_distance(pixel_radius) ==
    IF pixel_radius <= 0 THEN 1000
    ELSE LET pixel_diameter == pixel_radius * 2
             product == actual_diameter_mm * reference_distance_mm
         IN  IF product >= 2000 * pixel_diameter THEN 2000
             ELSE IF product <= 100 * pixel_diameter THEN 100
             ELSE product \div pixel_diameter

send_ball_detection(link, team, ball_data, can_open, write_ok) ==
    LET l1 == ensure_connected(link, can_open)
        dx == ball_data.x - center_x
        dy == center_y - ball_data.y
        distance == estimate_distance(ball_data.radius)
    IN  IF ~l1.is_connected THEN Out(l1, <<>>, ReturnsFalse)
        ELSE IF team = "none" THEN Out(l1, <<>>, ReturnsFalse)
        ELSE IF priorities(team, ball_data.color) \in {NoKey, 0}
             THEN Out(l1, <<>>, ReturnsFalse)
        ELSE send_ball_data(l1, dx, dy, ball_data.color, distance, can_open,
                            write_ok)

send_stop(link, can_open, write_ok) ==
    send_ball_data(link, 0, 0, "red", 1000, can_open, write_ok)

\* VisionSerial.send_multiple_balls: the balls with a priority above 0,
\* sorted by priority, highest first (a stable sort); the first is reported.
send_multiple_balls(link, team, balls_list, can_open, write_ok) ==
    IF balls_list = <<>> THEN Out(link, <<>>, ReturnsFalse)
    ELSE IF team = "none" THEN Out(link, <<>>, ReturnsFalse)
    ELSE LET collectable_balls ==
                 SelectSeq(balls_list,
                           LAMBDA ball : /\ priorities(team, ball.color) # NoKey
                                         /\ priorities(team, ball.color) > 0)
             sorted_balls ==
                 SortedByPriority(
                     [i \in 1..Len(collectable_balls) |->
                         WithPriority(collectable_balls[i],
                                      priorities(team, collectable_balls[i].color))])
         IN  IF collectable_balls = <<>> THEN Out(link, <<>>, ReturnsFalse)
             ELSE send_ball_detection(link, team, sorted_balls[1], can_open,
                                      write_ok)

send_grab_command(link, grab, can_open, write_ok) ==
    LET l1 == ensure_connected(link, can_open)
        flag == IF grab THEN 1 ELSE 0
        checksum == (1 + flag) % 256
        command == <<START_BYTE, 1, flag, checksum, END_BYTE>>
    IN  IF ~l1.is_connected THEN Out(l1, <<>>, ReturnsFalse)
        ELSE IF write_ok THEN Out(l1, <<command>>, ReturnsTrue)
        ELSE Out(l1, <<>>, ReturnsFalse)

send_place_command_grab_id(link, given, position, can_open, write_ok) ==
    LET l1 == ensure_connected(link, can_open)
        pos_value == IF given THEN position ELSE 0
        command == <<START_BYTE, 1, pos_value, (2 + pos_value) % 256, END_BYTE>>
    IN  IF ~l1.is_connected THEN Out(l1, <<>>, Raises)
        ELSE IF pos_value \notin 0..255 THEN Out(l1, <<>>, ReturnsFalse)
        ELSE IF write_ok THEN Out(l1, <<command>>, ReturnsTrue)
        ELSE Out(l1, <<>>, ReturnsFalse)

\* given = FALSE is position=None. Without a link the method calls
\* self.report_failure, which VisionSerial does not define: AttributeError,
\* raised outside the try. bytes([...]) raises ValueError, which the method
\* catches, when pos_value is not in 0..255.
send_place_command(link, given, position, can_open, write_ok) ==
    LET l1 == ensure_connected(link, can_open)
        pos_value == IF given THEN position ELSE 0
        checksum == (2 + pos_value) % 256
        command == <<START_BYTE, 2, pos_value, checksum, END_BYTE>>
    IN  IF ~l1.is_connected THEN Out(l1, <<>>, Raises)
        ELSE IF pos_value \notin 0..255 THEN Out(l1, <<>>, ReturnsFalse)
        ELSE IF write_ok THEN Out(l1, <<command>>, ReturnsTrue)
        ELSE Out(l1, <<>>, ReturnsFalse)

send_rotation_unclamped(link, rotation_speed, can_open, write_ok) ==
    LET l1 == ensure_connected(link, can_open)
        mapped_value == rotation_speed + 100
        command == <<START_BYTE, 3, mapped_value, (3 + mapped_value) % 256,
                     END_BYTE>>
    IN  IF ~l1.is_connected THEN Out(l1, <<>>, Raises)
        ELSE IF mapped_value \notin 0..255 THEN Out(l1, <<>>, ReturnsFalse)
        ELSE IF write_ok THEN Out(l1, <<command>>, ReturnsTrue)
        ELSE Out(l1, <<>>, ReturnsFalse)

\* rotation_speed is an integer, so int(rotation_speed) is rotation_speed.
send_rotation(link, rotation_speed, can_open, write_ok) ==
    LET l1 == ensure_connected(link, can_open)
        speed_value == Max(-100, Min(100, rotation_speed))
        mapped_value == speed_value + 100
        checksum == (3 + mapped_value) % 256
        command == <<START_BYTE, 3, mapped_value, checksum, END_BYTE>>
    IN  IF ~l1.is_connected THEN Out(l1, <<>>, Raises)
        ELSE IF mapped_value \notin 0..255 THEN Out(l1, <<>>, ReturnsFalse)
        ELSE IF write_ok THEN Out(l1, <<command>>, ReturnsTrue)
        ELSE Out(l1, <<>>, ReturnsFalse)

receive_data_no_checksum(link, data, read_ok) ==
    IF link.ser # "open" \/ ~read_ok \/ Len(data) = 0
    THEN Out(link, <<>>, ReturnsNone)
    ELSE IF Len(data) >= 6 /\ data[1] = START_BYTE /\ data[Len(data)] = END_BYTE
    THEN Out(link, <<>>,
             ReturnsCommand(data[2], SubSeq(data, 3, Len(data) - 2)))
    ELSE Out(link, <<>>, ReturnsNone)

\* data: the bytes waiting at the port (in_waiting = len(data));
\* read_ok: whether in_waiting and read_all return instead of raising
receive_data(link, data, read_ok) ==
    IF link.ser # "open" \/ ~read_ok \/ Len(data) = 0
    THEN Out(link, <<>>, ReturnsNone)
    ELSE IF Len(data) >= 6 /\ data[1] = START_BYTE /\ data[Len(data)] = END_BYTE
    THEN LET cmd_type == data[2]
             params == SubSeq(data, 3, Len(data) - 2)
             checksum == data[Len(data) - 1]
             calculated_checksum == Sum(SubSeq(data, 2, Len(data) - 2)) % 256
         IN  IF calculated_checksum = checksum
             THEN Out(link, <<>>, ReturnsCommand(cmd_type, params))
             ELSE Out(link, <<>>, ReturnsNone)
    ELSE Out(link, <<>>, ReturnsNone)

close(link) ==
    IF link.ser = "open" THEN Link("closed", FALSE) ELSE link

\* The serial variables in the specifications that use no VisionSerial.
SerialUnused ==
    /\ ser = "none"
    /\ is_connected = FALSE
    /\ serial_op = "none"
    /\ serial_args = <<>>
    /\ wire = <<>>
    /\ ret = Returns("nothing")
    /\ connect_attempt = "not_needed"
    /\ rx = <<>>

----------------------------------------------------------------------------
(* The colour segmenter: ColorDetector, color_detector.py *)

NoLight == 0 - 1       \* last_light_level is None

standard_light_level == 128

\* One {lower, upper} pair of a colour class; h, s, v at positions 1, 2, 3.
Range(l, u) == [lower |-> l, upper |-> u]

\* An image: None or empty ("none"), an array that is no BGR image ("gray"),
\* or a BGR image ("bgr") of mean brightness light.
Image(k, l) == [kind |-> k, light |-> l]

\* The fields of a ColorDetector object. adaptation_factor is held in tenths.
Detector(base, hsv, enabled, last, factor, threshold, counter) ==
    [base_hsv_thresholds |-> base, hsv_thresholds |-> hsv,
     light_adaptation_enabled |-> enabled, last_light_level |-> last,
     adaptation_factor |-> factor, light_change_threshold |-> threshold,
     update_counter |-> counter]

Abs(n) == IF n < 0 THEN 0 - n ELSE n

\* The body of the loop of adjust_hsv_thresholds for one range, in exact
\* arithmetic: with f = factor / 10,
\*   1 - (128 - L) / 128 * f         = (1280 - (128 - L) * factor) / 1280
\*   1 + (L - 128) / 128 * f * 0.5   = (2560 + (L - 128) * factor) / 2560
\*   1 - abs(1 - L / 128) * f * 0.3  = (12800 - 3 * factor * |128 - L|) / 12800
adjust_range(config, light_level, factor) ==
    LET dark == light_level < standard_light_level
        lower_v == Max(0, (config.lower[3]
                             * (1280 - (standard_light_level - light_level) * factor))
                          \div 1280)
        upper_v == Min(255, (config.upper[3]
                               * (2560 + (light_level - standard_light_level) * factor))
                            \div 2560)
        lower_s == Max(0, (config.lower[2]
                             * (12800 - 3 * factor
                                          * Abs(standard_light_level - light_level)))
                          \div 12800)
    IN  Range(<<config.lower[1], lower_s,
                IF dark THEN lower_v ELSE config.lower[3]>>,
              <<config.upper[1], config.upper[2],
                IF dark THEN config.upper[3] ELSE upper_v>>)

\* works on a copy of base_thresholds and returns the copy
adjust_hsv_thresholds(base_thresholds, light_level, factor) ==
    [color_name \in DOMAIN base_thresholds |->
        [i \in 1..Len(base_thresholds[color_name]) |->
            adjust_range(base_thresholds[color_name][i], light_level, factor)]]

is_light_changed_significantly(det, current_light_level) ==
    \/ det.last_light_level = NoLight
    \/ Abs(current_light_level - det.last_light_level)
          >= det.light_change_threshold

\* whether update_thresholds_if_needed(image) replaces the working thresholds:
\* calculate_light_level raises, and the method catches it, when the image
\* is no BGR image
Updates(det, image) ==
    /\ det.light_adaptation_enabled
    /\ image.kind = "bgr"
    /\ is_light_changed_significantly(det, image.light)

update_thresholds_if_needed_in_place(det, image) ==
    IF Updates(det, image)
    THEN LET adjusted == adjust_hsv_thresholds(det.base_hsv_thresholds,
                                               image.light,
                                               det.adaptation_factor)
         IN  [det EXCEPT !.base_hsv_thresholds = adjusted,
                         !.hsv_thresholds = adjusted,
                         !.last_light_level = image.light,
                         !.update_counter = det.update_counter + 1]
    ELSE det

\* the object after update_thresholds_if_needed(image)
update_thresholds_if_needed(det, image) ==
    IF Updates(det, image)
    THEN [det EXCEPT
            !.hsv_thresholds = adjust_hsv_thresholds(det.base_hsv_thresholds,
                                                     image.light,
                                                     det.adaptation_factor),
            !.last_light_level = image.light,
            !.update_counter = det.update_counter + 1]
    ELSE det

set_adaptation_factor(det, factor) ==
    [det EXCEPT !.adaptation_factor = Max(0, Min(10, factor))]

set_light_change_threshold(det, threshold) ==
    [det EXCEPT !.light_change_threshold = Max(0, Min(255, threshold))]

enable_light_adaptation(det, enable) ==
    [det EXCEPT !.light_adaptation_enabled = enable,
                !.hsv_thresholds = IF enable THEN det.hsv_thresholds
                                   ELSE det.base_hsv_thresholds]

\* What detect_color and detect_all_colors give back: kind "none" is None,
\* "mask" a mask, "dict" a dict with a mask for each colour of colors,
\* "raised" an exception.
Result(k, cs) == [kind |-> k, colors |-> cs]
DetOut(det, r) == [det |-> det, ret |-> r]

\* "" is a colour name that is empty or no string. cv2.cvtColor(_, BGR2HSV)
\* raises inside the try on an image that is no BGR image.
detect_color(det, image, color_name) ==
    IF image.kind = "none" THEN DetOut(det, Result("none", {}))
    ELSE IF color_name = "" THEN DetOut(det, Result("none", {}))
    ELSE IF color_name \notin DOMAIN det.hsv_thresholds
    THEN DetOut(det, Result("raised", {}))
    ELSE IF image.kind = "gray"
    THEN DetOut(update_thresholds_if_needed(det, image), Result("none", {}))
    ELSE DetOut(update_thresholds_if_needed(det, image),
                Result("mask", {color_name}))

\* detect_color for each configured colour in turn; every one of the calls
\* runs update_thresholds_if_needed again.
RECURSIVE DetectEach(_, _, _)
DetectEach(det, image, names) ==
    IF names = {} THEN DetOut(det, Result("dict", {}))
    ELSE LET color_name == CHOOSE c \in names : TRUE
             one == detect_color(det, image, color_name)
             rest == DetectEach(one.det, image, names \ {color_name})
         IN  DetOut(rest.det,
                    Result("dict", rest.ret.colors
                              \cup (IF one.ret.kind = "mask" THEN {color_name}
                                    ELSE {})))

detect_all_colors(det, image) ==
    IF image.kind = "none" THEN DetOut(det, Result("dict", {}))
    ELSE LET d1 == update_thresholds_if_needed(det, image)
         IN  DetectEach(d1, image, DOMAIN d1.hsv_thresholds)

\* The detector variables in the specifications that use no ColorDetector.
DetectorUnused ==
    /\ base_hsv_thresholds = <<>>
    /\ hsv_thresholds = <<>>
    /\ light_adaptation_enabled = TRUE
    /\ last_light_level = NoLight
    /\ adaptation_factor = 1
    /\ light_change_threshold = 10
    /\ update_counter = 0
    /\ detect_op = "none"
    /\ detect_args = <<>>
    /\ detect_ret = Result("nothing", {})

----------------------------------------------------------------------------
(* Inputs of get_best_target *)

\* Ball centres of the calls of get_best_target: one outside every zone and
\* one inside a zone (the own or the other team's, as team_color is drawn).
SamplePoints == {FreePoint, BlueZonePoint}

BallKinds == {Ball(c, p, 25) : c \in Colors, p \in SamplePoints}

BallLists == UNION {[1..n -> BallKinds] : n \in 0..MaxBalls}

\* A held ball: only its colour is read.
HeldBall(c) == Ball(c, FreePoint, 25)

ColorRank(c) ==
    CASE c = "red" -> 0 [] c = "blue" -> 1 [] c = "yellow" -> 2 [] c = "black" -> 3

\* The held lists, one per multiset of colours (the checks count and test
\* membership, they do not read the order of the held list).
HeldLists ==
    LET ColourLists == UNION {[1..n -> Colors] : n \in 0..MaxHeld}
        Ordered(s) == \A i \in 1..(Len(s) - 1) : ColorRank(s[i]) <= ColorRank(s[i + 1])
    IN  {[i \in 1..Len(s) |-> HeldBall(s[i])] : s \in {t \in ColourLists : Ordered(t)}}

----------------------------------------------------------------------------
(* Spec: get_best_target on drawn inputs *)

\* frame_reads while no call of get_frame has just failed.
NoReads == [reads |-> 0, inits |-> 0]

\* VisionCore.__init__ followed by the caller's choice of arguments.
Init ==
    /\ team_color \in {"red", "blue"}
    /\ enemy_color = IF team_color = "red" THEN "blue" ELSE "red"
    /\ \E cfg \in Configs :
          /\ ball_priorities = cfg.ball_priorities
          /\ safety_zones = cfg.safety_zones
    /\ first_pick = TRUE
    /\ balls \in BallLists
    /\ current_balls \in HeldLists
    /\ best_target = None
    /\ pc = "ready"
    /\ camera = "open"
    /\ restart_count = 0
    /\ frame_reads = NoReads
    /\ run_pc = "idle"
    /\ state = "search_ball"
    /\ no_ball_count = 0
    /\ approach_frames = 0
    /\ serial_call = "none"
    /\ grabs_done = 0
    /\ main_pc = "idle"
    /\ SerialUnused
    /\ DetectorUnused

\* A call best_target = get_best_target(balls, current_balls).
GetBestTarget ==
    /\ pc = "ready"
    /\ best_target' = get_best_target(balls, current_balls)
    /\ pc' = "returned"
    /\ UNCHANGED <<detectorVars, serialVars, configVars, first_pick, balls, current_balls, coreVars, mainVars>>

\* VisionCore.set_first_pick_done
SetFirstPickDone ==
    /\ pc = "ready"
    /\ first_pick' = FALSE
    /\ UNCHANGED <<detectorVars, serialVars, configVars, balls, current_balls, best_target, pc, coreVars,
                   mainVars>>

Next == GetBestTarget \/ SetFirstPickDone

Spec == Init /\ [][Next]_vars

----------------------------------------------------------------------------
(* SpecCore: a VisionCore object and its operations *)

MaxFrameBalls == 1     \* balls that the tracker reports in one frame

max_restarts == 5

\* Ball centres and radii of the frames: free, inside the red zone, inside
\* the fence; below and above the grasp radius of the sequencer.
FramePoints == {FreePoint, RedZonePoint, FencePoint}
FrameRadii == {25, 35}
FrameBallKinds == {Ball(c, p, r) : c \in Colors, p \in FramePoints, r \in FrameRadii}

\* What detect_all_balls can return for one frame.
FrameBallLists == UNION {[1..n -> FrameBallKinds] : n \in 0..MaxFrameBalls}

\* VisionCore.init_camera: the camera object, or None.
InitCameraOutcomes == {"open", "none"}

max_retries == 3

\* What the camera does during one call of get_frame: how re-opening a
\* camera that is not open ends, the result of each read in turn, and how
\* many passes of the read loop begin before the two seconds are over.
ReopenOutcomes == {"opened", "closed", "raises"}
ReadResults == [1..(max_retries + 3) -> BOOLEAN]
Deadlines == 0..(max_retries + 2)

\* What get_frame did: whether a frame came back, the camera it leaves, the
\* reads it made and the calls of init_camera it made.
Frame(ok, cam, reads, inits) ==
    [ok |-> ok, camera |-> cam, reads |-> reads, inits |-> inits]

\* get_frame with its read loop left on the deadline only.
RECURSIVE read_loop_no_retry_limit(_, _, _)
read_loop_no_retry_limit(rs, within, retry_count) ==
    IF retry_count >= within THEN [ok |-> FALSE, reads |-> retry_count]
    ELSE IF rs[retry_count + 1] THEN [ok |-> TRUE, reads |-> retry_count + 1]
    ELSE read_loop_no_retry_limit(rs, within, retry_count + 1)

\* The read loop of get_frame after retry_count failed reads: it ends when the
\* deadline has passed, with the first read that delivers a frame, or when
\* retry_count exceeds max_retries.
RECURSIVE read_loop(_, _, _)
read_loop(rs, within, retry_count) ==
    IF retry_count >= within THEN [ok |-> FALSE, reads |-> retry_count]
    ELSE IF rs[retry_count + 1] THEN [ok |-> TRUE, reads |-> retry_count + 1]
    ELSE IF retry_count + 1 > max_retries
         THEN [ok |-> FALSE, reads |-> retry_count + 1]
         ELSE read_loop(rs, within, retry_count + 1)

\* VisionCore.get_frame: a camera that is not open is opened again; the read
\* loop; then release, init_camera and, with a camera, one more read.
get_frame(cam, reopen, rs, within, init) ==
    IF cam # "open" /\ reopen = "raises" THEN Frame(FALSE, cam, 0, 0)
    ELSE IF cam # "open" /\ reopen = "closed" THEN Frame(FALSE, "closed", 0, 0)
    ELSE LET loop == read_loop(rs, within, 0) IN
         IF loop.ok THEN Frame(TRUE, "open", loop.reads, 0)
         ELSE IF init = "none" THEN Frame(FALSE, "none", loop.reads, 1)
         ELSE Frame(rs[loop.reads + 1], "open", loop.reads + 1, 1)

\* The outcomes of get_frame on each kind of camera.
OpenCameraFrames ==
    {get_frame("open", "opened", rs, within, init) :
        rs \in ReadResults, within \in Deadlines, init \in InitCameraOutcomes}
ClosedCameraFrames ==
    {get_frame("closed", reopen, rs, within, init) :
        reopen \in ReopenOutcomes, rs \in ReadResults, within \in Deadlines,
        init \in InitCameraOutcomes}
NoCameraFrames ==
    {get_frame("none", reopen, rs, within, init) :
        reopen \in ReopenOutcomes, rs \in ReadResults, within \in Deadlines,
        init \in InitCameraOutcomes}

\* VisionCore.get_frame under every behaviour of the camera.
GetFrameOutcomes(cam) ==
    CASE cam = "open" -> OpenCameraFrames
      [] cam = "closed" -> ClosedCameraFrames
      [] cam = "none" -> NoCameraFrames

\* The cameras that get_frame leaves when it returns a frame (ok) or None.
Cameras(cam, ok) == {o.camera : o \in {x \in GetFrameOutcomes(cam) : x.ok = ok}}

\* What frame_reads keeps of a call that returned None.
Reads(o) == [reads |-> o.reads, inits |-> o.inits]

\* VisionCore.release: the camera object is released, not dropped.
ReleasedCamera(cam) == IF cam = "none" THEN "none" ELSE "closed"

\* VisionCore.__init__ before any call; no argument list is in play.
InitCore ==
    /\ team_color \in {"red", "blue"}
    /\ enemy_color = IF team_color = "red" THEN "blue" ELSE "red"
    /\ \E cfg \in Configs :
          /\ ball_priorities = cfg.ball_priorities
          /\ safety_zones = cfg.safety_zones
    /\ first_pick = TRUE
    /\ balls = <<>>
    /\ current_balls = <<>>
    /\ best_target = None
    /\ pc = "ready"
    /\ camera \in InitCameraOutcomes
    /\ restart_count = 0
    /\ frame_reads = NoReads
    /\ run_pc = "idle"
    /\ state = "search_ball"
    /\ no_ball_count = 0
    /\ approach_frames = 0
    /\ serial_call = "none"
    /\ grabs_done = 0
    /\ main_pc = "idle"
    /\ SerialUnused
    /\ DetectorUnused

\* process_frame(get_frame()) with a frame: detect_all_balls, then
\* get_best_target(balls) with the default (empty) held list.
ProcessFrame ==
    /\ run_pc # "loop"
    /\ camera' \in Cameras(camera, TRUE)
    /\ frame_reads' = NoReads
    /\ \E bs \in FrameBallLists : best_target' = get_best_target(bs, <<>>)
    /\ UNCHANGED <<detectorVars, serialVars, configVars, first_pick, balls, current_balls, pc,
                   restart_count, run_pc, mainVars>>

\* process_frame(get_frame()) without a frame: (None, [], None).
ProcessNoFrame ==
    /\ run_pc # "loop"
    /\ \E o \in GetFrameOutcomes(camera) :
          /\ ~o.ok
          /\ camera' = o.camera
          /\ frame_reads' = Reads(o)
    /\ best_target' = None
    /\ UNCHANGED <<detectorVars, serialVars, configVars, first_pick, balls, current_balls, pc,
                   restart_count, run_pc, mainVars>>

\* VisionCore.release called by the owner.
Release ==
    /\ run_pc # "loop"
    /\ camera' = ReleasedCamera(camera)
    /\ UNCHANGED <<detectorVars, serialVars, configVars, first_pick, balls, current_balls, best_target, pc,
                   restart_count, run_pc, frame_reads, mainVars>>

\* VisionCore.run: entry.
RunStart ==
    /\ run_pc = "idle"
    /\ restart_count' = 0
    /\ run_pc' = "loop"
    /\ UNCHANGED <<detectorVars, serialVars, configVars, first_pick, balls, current_balls, best_target, pc,
                   camera, frame_reads, mainVars>>

\* VisionCore.run: an iteration with a frame.
RunFrame ==
    /\ run_pc = "loop"
    /\ camera' \in Cameras(camera, TRUE)
    /\ frame_reads' = NoReads
    /\ \E bs \in FrameBallLists : best_target' = get_best_target(bs, <<>>)
    /\ UNCHANGED <<detectorVars, serialVars, configVars, first_pick, balls, current_balls, pc,
                   restart_count, run_pc, mainVars>>

\* VisionCore.run: the user presses q in an iteration with a frame.
RunQuit ==
    /\ run_pc = "loop"
    /\ \E c \in Cameras(camera, TRUE) : camera' = ReleasedCamera(c)
    /\ frame_reads' = NoReads
    /\ \E bs \in FrameBallLists : best_target' = get_best_target(bs, <<>>)
    /\ run_pc' = "released"
    /\ UNCHANGED <<detectorVars, serialVars, configVars, first_pick, balls, current_balls, pc,
                   restart_count, mainVars>>

\* RunFrameFailed with a re-initialisation that also resets first_pick.
RunFrameFailed_resets_first_pick ==
    /\ run_pc = "loop"
    /\ best_target' = None
    /\ restart_count' = restart_count + 1
    /\ first_pick' = TRUE
    /\ \E o \in GetFrameOutcomes(camera) :
          /\ ~o.ok
          /\ frame_reads' = Reads(o)
          /\ IF restart_count + 1 < max_restarts
             THEN /\ camera' \in InitCameraOutcomes
                  /\ run_pc' = "loop"
             ELSE /\ camera' = ReleasedCamera(o.camera)
                  /\ run_pc' = "released"
    /\ UNCHANGED <<detectorVars, serialVars, configVars, balls, current_balls, pc, mainVars>>

\* VisionCore.run: an iteration without a frame. process_frame returns a
\* tuple, result['frame'] raises, and the handler counts a restart: the
\* camera is released and initialised again, or the loop is left.
RunFrameFailed ==
    /\ run_pc = "loop"
    /\ best_target' = None
    /\ restart_count' = restart_count + 1
    /\ \E o \in GetFrameOutcomes(camera) :
          /\ ~o.ok
          /\ frame_reads' = Reads(o)
          /\ IF restart_count + 1 < max_restarts
             THEN /\ camera' \in InitCameraOutcomes
                  /\ run_pc' = "loop"
             ELSE /\ camera' = ReleasedCamera(o.camera)
                  /\ run_pc' = "released"
    /\ UNCHANGED <<detectorVars, serialVars, configVars, first_pick, balls, current_balls, pc, mainVars>>

NextCore ==
    \/ ProcessFrame \/ ProcessNoFrame \/ Release \/ SetFirstPickDone
    \/ RunStart \/ RunFrame \/ RunQuit \/ RunFrameFailed

SpecCore == InitCore /\ [][NextCore]_vars

----------------------------------------------------------------------------
(* SpecMain: the sequencer of main(), main.py *)

MaxNoBall == 11        \* cap of no_ball_count, which main() never resets

SEARCH_BALL == "search_ball"
APPROACH_BALL == "approach_ball"
GRAB_BALL == "grab_ball"
SEARCH_AREA == "search_area"
PLACE_BALL == "place_ball"

\* vision_result.get('detected_areas', []): process_frame returns the keys
\* frame, balls and best_target only.
detected_areas == <<>>

\* The test "best_target and best_target['color'] in [team, black, yellow]".
IsTarget(target) ==
    target # None /\ target.color \in {team_color, "black", "yellow"}

\* main() after VisionCore and VisionSerial are constructed.
InitMain ==
    /\ team_color \in {"red", "blue"}
    /\ enemy_color = IF team_color = "red" THEN "blue" ELSE "red"
    /\ \E cfg \in Configs :
          /\ ball_priorities = cfg.ball_priorities
          /\ safety_zones = cfg.safety_zones
    /\ first_pick = TRUE
    /\ balls = <<>>
    /\ current_balls = <<>>
    /\ best_target = None
    /\ pc = "ready"
    /\ camera \in InitCameraOutcomes
    /\ restart_count = 0
    /\ frame_reads = NoReads
    /\ run_pc = "idle"
    /\ state = SEARCH_BALL
    /\ no_ball_count = 0
    /\ approach_frames = 0
    /\ serial_call = "none"
    /\ grabs_done = 0
    /\ main_pc = "loop"
    /\ \E can_open \in BOOLEAN :
          /\ ser = connect(Link("none", FALSE), can_open).ser
          /\ is_connected = connect(Link("none", FALSE), can_open).is_connected
          /\ connect_attempt = Attempt(Link("none", FALSE), can_open)
    /\ serial_op = "none"
    /\ serial_args = <<>>
    /\ wire = <<>>
    /\ ret = Returns("nothing")
    /\ rx = <<>>
    /\ DetectorUnused

\* The call that one iteration of main() makes on its VisionSerial, with the
\* arguments main() passes. VisionSerial has no method send_stop_command: the
\* call raises AttributeError, which main() logs. No call writes nothing.
MainSerial(call, target, link, can_open, write_ok) ==
    CASE call = "send_stop" -> send_stop(link, can_open, write_ok)
      [] call = "send_ball_detection" ->
            send_ball_detection(link, team_color, target, can_open, write_ok)
      [] call = "send_stop_command" -> Out(link, <<>>, Raises)
      [] call = "send_grab_command" ->
            send_grab_command(link, TRUE, can_open, write_ok)
      [] call = "send_rotation" -> send_rotation(link, 30, can_open, write_ok)
      [] call = "send_place_command" ->
            send_place_command(link, FALSE, 0, can_open, write_ok)
      [] OTHER -> Out(link, <<>>, Returns("nothing"))

\* Whether that call tried to open the link.
MainAttempt(call, link, can_open) ==
    IF call \in {"none", "send_stop_command"} THEN "not_needed"
    ELSE Attempt(link, can_open)

\* serial.close() in the finally clause of main().
MainClose ==
    /\ ser' = close(Link(ser, is_connected)).ser
    /\ is_connected' = close(Link(ser, is_connected)).is_connected
    /\ wire' = <<>>
    /\ ret' = Returns("nothing")
    /\ connect_attempt' = "not_needed"
    /\ UNCHANGED <<serial_op, serial_args, rx>>

\* One iteration of the while loop with a frame: process_frame, then the
\* branch of the sequencer state and its call on the link. elapsed is
\* "time.time() - state_timer > 2". receive_data at the end of the iteration
\* changes nothing: its result is only logged.
MainIteration ==
    /\ main_pc = "loop"
    /\ camera' \in Cameras(camera, TRUE)
    /\ frame_reads' = NoReads
    /\ \E bs \in FrameBallLists, elapsed \in BOOLEAN :
          LET target == get_best_target(bs, <<>>) IN
          /\ best_target' = target
          /\ CASE state = SEARCH_BALL ->
                    IF IsTarget(target)
                    THEN /\ state' = APPROACH_BALL
                         /\ approach_frames' = 0
                         /\ no_ball_count' = 0
                         /\ serial_call' = "none"
                         /\ grabs_done' = grabs_done
                    ELSE /\ no_ball_count < MaxNoBall
                         /\ no_ball_count' = no_ball_count + 1
                         /\ serial_call' =
                              IF no_ball_count + 1 >= 10 THEN "send_stop" ELSE "none"
                         /\ UNCHANGED <<state, approach_frames, grabs_done>>
               [] state = APPROACH_BALL ->
                    IF IsTarget(target)
                    THEN /\ serial_call' = "send_ball_detection"
                         /\ approach_frames' = approach_frames + 1
                         /\ no_ball_count' = 0
                         /\ state' = IF target.radius > 30 \/ approach_frames + 1 >= 30
                                     THEN GRAB_BALL ELSE APPROACH_BALL
                         /\ grabs_done' = grabs_done
                    ELSE /\ no_ball_count' = no_ball_count + 1
                         /\ state' = IF no_ball_count + 1 >= 3
                                     THEN SEARCH_BALL ELSE APPROACH_BALL
                         /\ serial_call' = IF no_ball_count + 1 >= 3
                                           THEN "send_stop_command" ELSE "none"
                         /\ UNCHANGED <<approach_frames, grabs_done>>
               [] state = GRAB_BALL ->
                    /\ serial_call' = "send_grab_command"
                    /\ state' = IF elapsed THEN SEARCH_AREA ELSE GRAB_BALL
                    /\ grabs_done' = IF elapsed THEN grabs_done + 1 ELSE grabs_done
                    /\ UNCHANGED <<no_ball_count, approach_frames>>
               [] state = SEARCH_AREA ->
                    IF detected_areas # <<>>
                    THEN /\ state' = PLACE_BALL
                         /\ serial_call' = "none"
                         /\ UNCHANGED <<no_ball_count, approach_frames, grabs_done>>
                    ELSE /\ serial_call' = "send_rotation"
                         /\ UNCHANGED <<state, no_ball_count, approach_frames,
                                        grabs_done>>
               [] state = PLACE_BALL ->
                    /\ serial_call' = "send_place_command"
                    /\ state' = IF elapsed THEN SEARCH_BALL ELSE PLACE_BALL
                    /\ UNCHANGED <<no_ball_count, approach_frames, grabs_done>>
          /\ \E can_open \in BOOLEAN, write_ok \in BOOLEAN :
                LET link == Link(ser, is_connected)
                    out == MainSerial(serial_call', target, link, can_open, write_ok)
                IN  /\ ser' = out.link.ser
                    /\ is_connected' = out.link.is_connected
                    /\ wire' = out.wire
                    /\ ret' = out.ret
                    /\ connect_attempt' = MainAttempt(serial_call', link, can_open)
    /\ UNCHANGED <<detectorVars, serial_op, serial_args, rx, configVars, first_pick, balls,
                   current_balls, pc, restart_count, run_pc, main_pc>>

\* An iteration without a frame: process_frame returns the tuple
\* (None, [], None), vision_result['frame'] raises TypeError, which the
\* "except RuntimeError" does not catch; main() logs it, closes the link
\* and exits.
MainFrameFailed ==
    /\ main_pc = "loop"
    /\ \E o \in GetFrameOutcomes(camera) :
          /\ ~o.ok
          /\ camera' = o.camera
          /\ frame_reads' = Reads(o)
    /\ best_target' = None
    /\ main_pc' = "exited"
    /\ MainClose
    /\ UNCHANGED <<detectorVars, configVars, first_pick, balls, current_balls, pc,
                   restart_count, run_pc, state, no_ball_count, approach_frames,
                   serial_call, grabs_done>>

\* The run-time limit is reached at the head of an iteration.
MainTimeLimit ==
    /\ main_pc = "loop"
    /\ main_pc' = "closed"
    /\ MainClose
    /\ UNCHANGED <<detectorVars, configVars, first_pick, balls, current_balls, best_target, pc,
                   coreVars, state, no_ball_count, approach_frames, serial_call,
                   grabs_done>>

\* The user presses q after the frame of an iteration has been processed.
MainQuit ==
    /\ main_pc = "loop"
    /\ camera' \in Cameras(camera, TRUE)
    /\ frame_reads' = NoReads
    /\ \E bs \in FrameBallLists : best_target' = get_best_target(bs, <<>>)
    /\ main_pc' = "closed"
    /\ MainClose
    /\ UNCHANGED <<detectorVars, configVars, first_pick, balls, current_balls, pc,
                   restart_count, run_pc, state, no_ball_count, approach_frames,
                   serial_call, grabs_done>>

NextMain == MainIteration \/ MainFrameFailed \/ MainTimeLimit \/ MainQuit

SpecMain == InitMain /\ [][NextMain]_vars

----------------------------------------------------------------------------
(* SpecSerial: a VisionSerial object and its operations *)

MaxParams == 2         \* parameter bytes of a received frame

Offsets == {-40000, -32768, -300, 0, 5, 32767, 40000}
Distances == {-5, 0, 1000, 65535, 100000}
ColourNames == Colors \cup {"green"}
Positions == {-1, 0, 1, 4, 255, 256}
Speeds == {-150, -101, -100, -50, -1, 0, 1, 30, 100, 101, 150}
Radii == {-3, 0, 1, 4, 5, 6, 20, 25, 99, 100, 101, 150}

CommandIds == {1, 2, 3}
ParamBytes == {0, 1, START_BYTE, END_BYTE, 255}
ParamLists == UNION {[1..n -> ParamBytes] : n \in 1..MaxParams}

\* A frame as the protocol builds it: start, command id, parameters,
\* checksum of command id and parameters, end.
frame(cmd, params) ==
    <<START_BYTE, cmd>> \o params \o <<Sum(<<cmd>> \o params) % 256, END_BYTE>>

ValidFrames == {frame(cmd, params) : cmd \in CommandIds, params \in ParamLists}

\* byte b with bit k inverted
FlipBit(b, k) ==
    LET w == 2 ^ k IN IF (b \div w) % 2 = 1 THEN b - w ELSE b + w

\* Frames damaged on the line: one bit of the checksum inverted, the start or
\* the end byte replaced, the last byte lost, a byte of noise in front.
DamagedFrames ==
    UNION { {[f EXCEPT ![Len(f) - 1] = FlipBit(f[Len(f) - 1], k)] : k \in 0..7}
            \cup {[f EXCEPT ![1] = 0], [f EXCEPT ![Len(f)] = 0],
                  SubSeq(f, 1, Len(f) - 1), <<0>> \o f}
          : f \in ValidFrames }

RxBuffers == {<<>>} \cup ValidFrames \cup DamagedFrames

visionVars == <<configVars, first_pick, balls, current_balls, best_target, pc,
                coreVars, mainVars>>

\* The call that the caller of the object makes, with its arguments; for
\* receive_data, the bytes that wait at the port.
CallerChoice ==
    \/ /\ serial_op = "send_ball_data"
       /\ serial_args \in Offsets \X Offsets \X ColourNames \X Distances
       /\ rx = <<>>
    \/ /\ serial_op = "send_ball_detection"
       /\ serial_args \in {<<ball>> : ball \in FrameBallKinds}
       /\ rx = <<>>
    \/ /\ serial_op \in {"send_stop", "close"}
       /\ serial_args = <<>>
       /\ rx = <<>>
    \/ /\ serial_op = "send_grab_command"
       /\ serial_args \in {<<grab>> : grab \in BOOLEAN}
       /\ rx = <<>>
    \/ /\ serial_op = "send_place_command"
       /\ serial_args \in {<<FALSE, 0>>} \cup {<<TRUE, p>> : p \in Positions}
       /\ rx = <<>>
    \/ /\ serial_op = "send_rotation"
       /\ serial_args \in {<<s>> : s \in Speeds}
       /\ rx = <<>>
    \/ /\ serial_op = "receive_data"
       /\ serial_args = <<>>
       /\ rx \in RxBuffers
    \/ /\ serial_op = "estimate_distance"
       /\ serial_args \in {<<r>> : r \in Radii}
       /\ rx = <<>>

\* VisionSerial.__init__: set_team_color if a team is given, then connect();
\* and the caller's choice of a method and its arguments.
InitSerial ==
    /\ team_color \in {"red", "blue", "none"}
    /\ enemy_color = CASE team_color = "red" -> "blue"
                       [] team_color = "blue" -> "red"
                       [] OTHER -> "none"
    /\ ball_priorities = DefaultPriorities
    /\ safety_zones = DefaultZones
    /\ first_pick = TRUE
    /\ balls = <<>>
    /\ current_balls = <<>>
    /\ best_target = None
    /\ pc = "ready"
    /\ camera = "open"
    /\ restart_count = 0
    /\ frame_reads = NoReads
    /\ run_pc = "idle"
    /\ state = SEARCH_BALL
    /\ no_ball_count = 0
    /\ approach_frames = 0
    /\ serial_call = "none"
    /\ grabs_done = 0
    /\ main_pc = "idle"
    /\ \E can_open \in BOOLEAN :
          /\ ser = connect(Link("none", FALSE), can_open).ser
          /\ is_connected = connect(Link("none", FALSE), can_open).is_connected
          /\ connect_attempt = Attempt(Link("none", FALSE), can_open)
    /\ CallerChoice
    /\ DetectorUnused
    /\ wire = <<>>
    /\ ret = Returns("nothing")

\* The effect of one call on the object and on the record of the call.
Call(out, attempt) ==
    /\ ser' = out.link.ser
    /\ is_connected' = out.link.is_connected
    /\ wire' = out.wire
    /\ ret' = out.ret
    /\ connect_attempt' = attempt
    /\ UNCHANGED <<serial_op, serial_args, visionVars, detectorVars>>

SendBallData ==
    /\ UNCHANGED rx
    /\ serial_op = "send_ball_data"
    /\ \E can_open \in BOOLEAN, write_ok \in BOOLEAN :
          Call(send_ball_data(Link(ser, is_connected), serial_args[1],
                              serial_args[2], serial_args[3], serial_args[4],
                              can_open, write_ok),
               Attempt(Link(ser, is_connected), can_open))

SendBallDetection ==
    /\ UNCHANGED rx
    /\ serial_op = "send_ball_detection"
    /\ \E can_open \in BOOLEAN, write_ok \in BOOLEAN :
          Call(send_ball_detection(Link(ser, is_connected), team_color,
                                   serial_args[1], can_open, write_ok),
               Attempt(Link(ser, is_connected), can_open))

SendStop ==
    /\ UNCHANGED rx
    /\ serial_op = "send_stop"
    /\ \E can_open \in BOOLEAN, write_ok \in BOOLEAN :
          Call(send_stop(Link(ser, is_connected), can_open, write_ok),
               Attempt(Link(ser, is_connected), can_open))

SendGrabCommand ==
    /\ UNCHANGED rx
    /\ serial_op = "send_grab_command"
    /\ \E can_open \in BOOLEAN, write_ok \in BOOLEAN :
          Call(send_grab_command(Link(ser, is_connected), serial_args[1],
                                 can_open, write_ok),
               Attempt(Link(ser, is_connected), can_open))

SendPlaceCommand ==
    /\ UNCHANGED rx
    /\ serial_op = "send_place_command"
    /\ \E can_open \in BOOLEAN, write_ok \in BOOLEAN :
          Call(send_place_command(Link(ser, is_connected), serial_args[1],
                                  serial_args[2], can_open, write_ok),
               Attempt(Link(ser, is_connected), can_open))

SendRotation ==
    /\ UNCHANGED rx
    /\ serial_op = "send_rotation"
    /\ \E can_open \in BOOLEAN, write_ok \in BOOLEAN :
          Call(send_rotation(Link(ser, is_connected), serial_args[1], can_open,
                             write_ok),
               Attempt(Link(ser, is_connected), can_open))

\* When the port raises, nothing has been read.
ReceiveData ==
    /\ serial_op = "receive_data"
    /\ \E read_ok \in BOOLEAN :
          /\ Call(receive_data(Link(ser, is_connected), rx, read_ok),
                  "not_needed")
          /\ rx' = IF ser = "open" /\ ~read_ok THEN <<>> ELSE rx

EstimateDistance ==
    /\ UNCHANGED rx
    /\ serial_op = "estimate_distance"
    /\ Call(Out(Link(ser, is_connected), <<>>,
                ReturnsInt(estimate_distance(serial_args[1]))), "not_needed")

\* VisionSerial.close, between two calls of the caller's method; the record
\* of the last call is dropped.
Close ==
    /\ UNCHANGED rx
    /\ Call(Out(close(Link(ser, is_connected)), <<>>, Returns("nothing")),
            "not_needed")

NextSerial ==
    \/ SendBallData
    \/ SendBallDetection
    \/ SendStop
    \/ SendGrabCommand
    \/ SendPlaceCommand
    \/ SendRotation
    \/ ReceiveData
    \/ EstimateDistance
    \/ Close

SpecSerial == InitSerial /\ [][NextSerial]_vars

----------------------------------------------------------------------------
(* SpecDetector: a ColorDetector object and its operations *)

MaxUpdates == 3        \* cap of update_counter

RedRanges ==
    << Range(<<0, 100, 100>>, <<10, 255, 255>>),
       Range(<<160, 100, 100>>, <<180, 255, 255>>) >>
BlueRanges == << Range(<<100, 100, 50>>, <<130, 255, 200>>) >>

\* The content of the threshold file: no colour, red only, red and blue.
ThresholdFile(names) ==
    [c \in names |-> IF c = "red" THEN RedRanges ELSE BlueRanges]
ThresholdFiles == {ThresholdFile(names) : names \in {{}, {"red"}, {"red", "blue"}}}

Lights == {40, 45, 220}
Images == {Image("none", 0), Image("gray", 0)} \cup {Image("bgr", l) : l \in Lights}
DetectNames == {"red", "blue", "green", ""}
Factors == {0, 20}          \* arguments of set_adaptation_factor, in tenths
Thresholds == {0, 300}      \* arguments of set_light_change_threshold

\* the object as a record of its fields
Det ==
    Detector(base_hsv_thresholds, hsv_thresholds, light_adaptation_enabled,
             last_light_level, adaptation_factor, light_change_threshold,
             update_counter)

\* The VisionCore and main() variables in a specification of the detector.
VisionIdle ==
    /\ team_color = "red"
    /\ enemy_color = "blue"
    /\ ball_priorities = DefaultPriorities
    /\ safety_zones = DefaultZones
    /\ first_pick = TRUE
    /\ balls = <<>>
    /\ current_balls = <<>>
    /\ best_target = None
    /\ pc = "ready"
    /\ camera = "open"
    /\ restart_count = 0
    /\ frame_reads = NoReads
    /\ run_pc = "idle"
    /\ state = SEARCH_BALL
    /\ no_ball_count = 0
    /\ approach_frames = 0
    /\ serial_call = "none"
    /\ grabs_done = 0
    /\ main_pc = "idle"

\* ColorDetector.__init__ on a threshold file
InitDetector ==
    /\ VisionIdle
    /\ SerialUnused
    /\ base_hsv_thresholds \in ThresholdFiles
    /\ hsv_thresholds = base_hsv_thresholds
    /\ light_adaptation_enabled = TRUE
    /\ last_light_level = NoLight
    /\ adaptation_factor = 1
    /\ light_change_threshold = 10
    /\ update_counter = 0
    /\ detect_op = "__init__"
    /\ detect_args = <<>>
    /\ detect_ret = Result("nothing", {})

\* The effect of one call on the object and on the record of the call.
DetectorCall(op, args, out) ==
    /\ out.det.update_counter <= MaxUpdates
    /\ base_hsv_thresholds' = out.det.base_hsv_thresholds
    /\ hsv_thresholds' = out.det.hsv_thresholds
    /\ light_adaptation_enabled' = out.det.light_adaptation_enabled
    /\ last_light_level' = out.det.last_light_level
    /\ adaptation_factor' = out.det.adaptation_factor
    /\ light_change_threshold' = out.det.light_change_threshold
    /\ update_counter' = out.det.update_counter
    /\ detect_op' = op
    /\ detect_args' = args
    /\ detect_ret' = out.ret
    /\ UNCHANGED <<serialVars, visionVars>>

DetectColor ==
    \E image \in Images, color_name \in DetectNames :
       DetectorCall("detect_color", <<image, color_name>>,
                    detect_color(Det, image, color_name))

DetectAllColors ==
    \E image \in Images :
       DetectorCall("detect_all_colors", <<image>>,
                    detect_all_colors(Det, image))

UpdateThresholdsIfNeeded ==
    \E image \in Images :
       DetectorCall("update_thresholds_if_needed", <<image>>,
                    DetOut(update_thresholds_if_needed(Det, image),
                           Result(IF Updates(Det, image) THEN "true"
                                  ELSE "false", {})))

SetAdaptationFactor ==
    \E factor \in Factors :
       DetectorCall("set_adaptation_factor", <<factor>>,
                    DetOut(set_adaptation_factor(Det, factor),
                           Result("none", {})))

SetLightChangeThreshold ==
    \E threshold \in Thresholds :
       DetectorCall("set_light_change_threshold", <<threshold>>,
                    DetOut(set_light_change_threshold(Det, threshold),
                           Result("none", {})))

EnableLightAdaptation ==
    \E enable \in BOOLEAN :
       DetectorCall("enable_light_adaptation", <<enable>>,
                    DetOut(enable_light_adaptation(Det, enable),
                           Result("none", {})))

NextDetector ==
    \/ DetectColor
    \/ DetectAllColors
    \/ UpdateThresholdsIfNeeded
    \/ SetAdaptationFactor
    \/ SetLightChangeThreshold
    \/ EnableLightAdaptation

SpecDetector == InitDetector /\ [][NextDetector]_vars

----------------------------------------------------------------------------
(* SpecSelect: the two selection paths on one list of detected balls *)

LeftPoint == <<100, 400>>       \* outside every zone and outside the fence

\* every colour at two places outside the zones, and one ball inside a zone
SelectPoints == {FreePoint, LeftPoint}
SelectBallKinds ==
    {Ball(c, p, 25) : c \in Colors, p \in SelectPoints}
        \cup {Ball("red", BlueZonePoint, 25)}
SelectBallLists == UNION {[1..n -> SelectBallKinds] : n \in 0..MaxBalls}

\* nothing held, a hazard ball held, the transfer limit reached
SelectHeldLists ==
    { <<>>, <<HeldBall("yellow")>>,
      <<HeldBall("black"), HeldBall("black"), HeldBall("black"),
        HeldBall("black")>> }

\* VisionCore.__init__ and VisionSerial.__init__ for the same team, as in
\* main(), followed by the tracker's list of balls.
InitSelect ==
    /\ team_color \in {"red", "blue"}
    /\ enemy_color = IF team_color = "red" THEN "blue" ELSE "red"
    /\ \E cfg \in Configs :
          /\ ball_priorities = cfg.ball_priorities
          /\ safety_zones = cfg.safety_zones
    /\ first_pick = TRUE
    /\ balls \in SelectBallLists
    /\ current_balls \in SelectHeldLists
    /\ best_target = None
    /\ pc = "ready"
    /\ camera = "open"
    /\ restart_count = 0
    /\ frame_reads = NoReads
    /\ run_pc = "idle"
    /\ state = SEARCH_BALL
    /\ no_ball_count = 0
    /\ approach_frames = 0
    /\ serial_call = "none"
    /\ grabs_done = 0
    /\ main_pc = "idle"
    /\ \E can_open \in BOOLEAN :
          /\ ser = connect(Link("none", FALSE), can_open).ser
          /\ is_connected = connect(Link("none", FALSE), can_open).is_connected
          /\ connect_attempt = Attempt(Link("none", FALSE), can_open)
    /\ serial_op = "__init__"
    /\ serial_args = <<>>
    /\ wire = <<>>
    /\ ret = Returns("nothing")
    /\ rx = <<>>
    /\ DetectorUnused

\* A call send_multiple_balls(balls), once.
SendMultipleBalls ==
    /\ serial_op = "__init__"
    /\ \E can_open \in BOOLEAN, write_ok \in BOOLEAN :
          LET out == send_multiple_balls(Link(ser, is_connected), team_color,
                                         balls, can_open, write_ok)
          IN  /\ ser' = out.link.ser
              /\ is_connected' = out.link.is_connected
              /\ wire' = out.wire
              /\ ret' = out.ret
              /\ connect_attempt' = Attempt(Link(ser, is_connected), can_open)
    /\ serial_op' = "send_multiple_balls"
    /\ UNCHANGED <<serial_args, rx, visionVars, detectorVars>>

NextSelect == GetBestTarget \/ SetFirstPickDone \/ SendMultipleBalls

SpecSelect == InitSelect /\ [][NextSelect]_vars

----------------------------------------------------------------------------
(* Properties of get_best_target, checked under Spec *)

Returned == pc = "returned"

HoldsYellow == \E i \in 1..Len(current_balls) : current_balls[i].color = "yellow"

\* Held balls of the team colour or the core class.
TeamCoreHeld ==
    Cardinality({i \in 1..Len(current_balls) :
                    current_balls[i].color \in {team_color, "black"}})

\* Some detected ball of colour c lies outside every zone.
FreeBallOf(c) ==
    \E i \in 1..Len(balls) : balls[i].color = c /\ ~is_ball_in_safety_zone(balls[i])

\* The ball as the detector emitted it, without the priority key.
Detected(ball) == Ball(ball.color, <<ball.x, ball.y>>, ball.radius)

\* C1: get_best_target never returns a ball of the enemy colour, for every
\* list of detected balls, every held list and either value of first_pick.
C1_NeverEnemy == Returned => best_target.color # enemy_color

\* C1 case: first pick done, the table scores the enemy colour's own key
\* above zero, an enemy ball lies free, and a ball of another colour is chosen.
C1_Witness ==
    /\ Returned /\ ~first_pick
    /\ ball_priorities[enemy_color] # NoKey /\ ball_priorities[enemy_color] > 0
    /\ FreeBallOf(enemy_color)
    /\ best_target # None

\* C2: while first_pick is true get_best_target returns none or a ball of
\* the team colour.
C2_FirstPickTeamOnly ==
    (Returned /\ first_pick) =>
        (best_target = None \/ best_target.color = team_color)

\* C2 case: first pick pending, a core ball with a table score above the team
\* score lies free next to a team ball, and the team ball is returned.
C2_Witness ==
    /\ Returned /\ first_pick /\ current_balls = <<>>
    /\ FreeBallOf("black") /\ FreeBallOf(team_color)
    /\ Get(ball_priorities, "black", 0) > Get(ball_priorities, "team", 100)
    /\ best_target.color = team_color

\* C3: with a hazard-class (yellow) ball held, get_best_target returns none.
C3_HazardHeldNone == (Returned /\ HoldsYellow) => best_target = None

\* C3 case: first pick done, a yellow ball is held, and free team and core
\* balls with positive scores are detected; none is returned.
C3_Witness ==
    /\ Returned /\ ~first_pick /\ HoldsYellow
    /\ FreeBallOf(team_color) /\ FreeBallOf("black")
    /\ Get(ball_priorities, "black", 0) > 0
    /\ best_target = None

\* C4: a hazard-class (yellow) ball is returned only when nothing is held.
C4_HazardOnlyAlone ==
    (Returned /\ best_target.color = "yellow") => current_balls = <<>>

\* C4 case: a yellow ball is returned (nothing is held).
C4_Witness ==
    /\ Returned /\ best_target.color = "yellow" /\ current_balls = <<>>
    /\ Len(balls) >= 2

\* C5: with 4 or more team-colour or core balls held no team-colour or core
\* ball is returned; a yellow candidate then passes the count rule and fails
\* the singleton rule; held balls of other colours do not count.
C5_TransferCap ==
    /\ (Returned /\ TeamCoreHeld >= 4) =>
           ~(best_target.color \in {team_color, "black"})
    /\ (TeamCoreHeld >= 4) =>
           \A i \in 1..Len(balls) :
               balls[i].color = "yellow" =>
                   /\ check_transfer_limit(current_balls, balls[i])
                   /\ ~check_yellow_ball_restriction(current_balls, balls[i])
    /\ (TeamCoreHeld < 4 /\ ~HoldsYellow) =>
           \A i \in 1..Len(balls) : check_transfer_limit(current_balls, balls[i])

\* C5 case: 4 team/core balls held, first pick done, a free team ball and a
\* free yellow ball detected, nothing returned.
C5_Witness ==
    /\ Returned /\ ~first_pick /\ TeamCoreHeld >= 4
    /\ FreeBallOf(team_color) /\ FreeBallOf("yellow")
    /\ best_target = None

\* The candidates of get_best_target: score above 0, outside every zone,
\* passing the hazard-singleton check and the transfer-count check.
Eligible ==
    {i \in 1..Len(balls) :
        /\ calculate_ball_priority(balls[i]) > 0
        /\ ~is_ball_in_safety_zone(balls[i])
        /\ check_yellow_ball_restriction(current_balls, balls[i])
        /\ check_transfer_limit(current_balls, balls[i])}

\* C8: the returned ball is a candidate (score > 0, outside every zone,
\* passing both checks) and no candidate has a strictly higher score; none
\* is returned exactly when there is no candidate.
C8_BestCandidate ==
    Returned =>
        IF Eligible = {}
        THEN best_target = None
        ELSE /\ best_target # None
             /\ \E i \in Eligible :
                   /\ Detected(best_target) = balls[i]
                   /\ best_target.priority = calculate_ball_priority(balls[i])
             /\ \A j \in Eligible :
                   calculate_ball_priority(balls[j]) <= best_target.priority

\* C8 case: two candidates with different scores, the later one in the list
\* scoring higher, and it is returned.
C8_Witness ==
    /\ Returned /\ Len(balls) = 2 /\ Eligible = {1, 2}
    /\ calculate_ball_priority(balls[1]) < calculate_ball_priority(balls[2])
    /\ Detected(best_target) = balls[2]

\* The team that a zone of the configuration belongs to.
ZoneOwner(zone) ==
    CASE zone.name = "blue_safety_zone" -> "blue"
      [] zone.name = "red_safety_zone" -> "red"
      [] OTHER -> "none"

\* Where a ball is to be delivered: a team-coloured ball to the zone of its
\* colour, a core or hazard ball to the zone of the collecting team.
Destination(ball) ==
    IF ball.color \in {"red", "blue"} THEN ball.color ELSE team_color

\* The ball lies inside a zone whose owner is the ball's destination.
InOwnZone(ball) ==
    \E k \in 1..Len(safety_zones) :
        /\ InZone(safety_zones[k], ball)
        /\ ZoneOwner(safety_zones[k]) = Destination(ball)

\* Every zone of the configuration belongs to a team.
TeamZonesOnly ==
    \A k \in 1..Len(safety_zones) : ZoneOwner(safety_zones[k]) \in {"red", "blue"}

\* C7: with the zones of the two teams configured, the safety-zone step of
\* get_best_target discards a ball only when it lies inside a zone whose
\* owner matches the ball's destination; a team-colour ball inside the zone
\* of the other team stays a candidate and, being the only ball with nothing
\* held, is selected.
C7_DiscardOnlyInOwnZone ==
    (Returned /\ TeamZonesOnly) =>
        /\ \A i \in 1..Len(balls) :
               is_ball_in_safety_zone(balls[i]) => InOwnZone(balls[i])
        /\ (/\ Len(balls) = 1
            /\ balls[1].color = team_color
            /\ ~InOwnZone(balls[1])
            /\ current_balls = <<>>) => Detected(best_target) = balls[1]

----------------------------------------------------------------------------
(* Properties of the VisionCore object, checked under SpecCore *)

\* C9: first_pick is a one-way latch: it starts true, and no step of
\* VisionCore (selection, frame processing, camera re-initialisation, the
\* run loop, release) takes it from false back to true.
C9_FirstPickLatch ==
    /\ first_pick = TRUE
    /\ [][first_pick = FALSE => first_pick' = FALSE]_vars

\* C9 case: the latch has been set and the run loop has gone through camera
\* restarts to its release.
C9_Witness ==
    /\ first_pick = FALSE
    /\ run_pc = "released"
    /\ restart_count = max_restarts

\* C6: a ball whose centre lies inside the exclusion fence is never the
\* selected target of a frame.
C6_FenceExcluded == best_target # None => ~InFence(best_target)

----------------------------------------------------------------------------
(* Properties of the sequencer, checked under SpecMain *)

\* C10: once the sequencer has completed its grasp state for the first time
\* the pick state is Normal (first_pick is false).
C10_LatchedAfterGrasp == grabs_done >= 1 => first_pick = FALSE

----------------------------------------------------------------------------
(* Properties of the transport, checked under SpecSerial *)

\* the caller's method has returned (or raised) since construction or close
Called(op) == serial_op = op /\ ret.kind # "nothing"

from_bytes_signed(lo, hi) ==
    LET u == lo + 256 * hi IN IF u >= 32768 THEN u - 65536 ELSE u

from_bytes_unsigned(lo, hi) == lo + 256 * hi

Saturate(v, lo, hi) == IF v > hi THEN hi ELSE IF v < lo THEN lo ELSE v

C12_Saturates ==
    (Called("send_ball_data") /\ ret.kind = "true") =>
        LET f == wire[1]
            n == Len(f)
        IN  /\ from_bytes_signed(f[2], f[3])
                  = Saturate(serial_args[1], -32768, 32767)
            /\ from_bytes_signed(f[4], f[5])
                  = Saturate(serial_args[2], -32768, 32767)
            /\ from_bytes_unsigned(f[n - 2], f[n - 1])
                  = Saturate(serial_args[4], 0, 65535)

\* C12 witness: send_ball_data(40000, -40000, c, 100000) has been sent.
C12_Witness ==
    /\ Called("send_ball_data")
    /\ ret.kind = "true"
    /\ serial_args[1] = 40000
    /\ serial_args[2] = -40000
    /\ serial_args[4] = 100000

\* the read bytes start with 0xAA, end with 0xBB, and the byte before the end
\* is the sum of the bytes between the start byte and it, modulo 256
WellFormed(data) ==
    /\ Len(data) >= 4
    /\ data[1] = START_BYTE
    /\ data[Len(data)] = END_BYTE
    /\ data[Len(data) - 1] = Sum(SubSeq(data, 2, Len(data) - 2)) % 256

\* C13: receive_data never raises, and it returns a decoded command only
\* when the bytes it read are well formed; for all other bytes, a frame with
\* one bit of its checksum inverted among them, it returns None.
C13_DecodesOnlyWellFormed ==
    Called("receive_data") =>
        /\ ret.kind \in {"none", "command"}
        /\ ret.kind = "command" => WellFormed(rx)

\* C13 witness: a frame has been decoded.
C13_Witness == Called("receive_data") /\ ret.kind = "command"

\* C14: a validly built frame, the 5-byte frame with one parameter included,
\* that is all that receive_data reads from an open port comes back as its
\* command id and its parameters.
C14_RoundTrip ==
    (Called("receive_data") /\ ser = "open" /\ rx \in ValidFrames) =>
        ret = ReturnsCommand(rx[2], SubSeq(rx, 3, Len(rx) - 2))

CommandId(op) ==
    CASE op = "send_grab_command" -> 1
      [] op = "send_place_command" -> 2
      [] op = "send_rotation" -> 3

\* C15: whenever send_grab_command, send_place_command or send_rotation
\* returns True it has written exactly one frame, of the 5 bytes
\* 0xAA, command id, parameter, (command id + parameter) mod 256, 0xBB, with
\* command id 1, 2, 3; the parameter of grab is the flag, that of place the
\* position (0 without one).
C15_CommandFrame ==
    (serial_op \in {"send_grab_command", "send_place_command", "send_rotation"}
        /\ ret.kind = "true") =>
        /\ Len(wire) = 1
        /\ LET f == wire[1]
               id == CommandId(serial_op)
           IN  /\ Len(f) = 5
               /\ f[1] = START_BYTE
               /\ f[2] = id
               /\ f[3] \in 0..255
               /\ f[4] = (id + f[3]) % 256
               /\ f[5] = END_BYTE
               /\ serial_op = "send_grab_command"
                     => f[3] = IF serial_args[1] THEN 1 ELSE 0
               /\ serial_op = "send_place_command"
                     => f[3] = IF serial_args[1] THEN serial_args[2] ELSE 0

\* C15 witness: send_place_command(255) has returned True (its checksum
\* wraps around).
C15_Witness ==
    /\ Called("send_place_command")
    /\ serial_args = <<TRUE, 255>>
    /\ ret.kind = "true"

C17_EstimateDistance ==
    Called("estimate_distance") =>
        LET r == serial_args[1]
            v == ret.value
            q(x) == (actual_diameter_mm * reference_distance_mm) \div (2 * x)
        IN  /\ ret.kind = "int"
            /\ r > 0 => v = Saturate(q(r), 100, 2000)
            /\ r <= 0 => v = 1000
            /\ \A r2 \in Radii : (0 < r /\ r <= r2) => estimate_distance(r2) <= v

\* C17 witness: estimate_distance(6) has returned (20000 / 12 = 1666.67).
C17_Witness ==
    Called("estimate_distance") /\ serial_args[1] = 6 /\ ret.value = 1666

SendOps ==
    {"send_ball_data", "send_ball_detection", "send_stop", "send_grab_command",
     "send_place_command", "send_rotation"}

\* C19: a send operation whose attempt to open the link has failed has
\* written nothing and has returned False, not raised, and the object is left
\* not connected, so that the next send tries to connect again.
C19_NoLinkReturnsFalse ==
    (serial_op \in SendOps /\ ret.kind # "nothing" /\ connect_attempt = "failed")
        => /\ wire = <<>>
           /\ ret.kind = "false"
           /\ NeedsConnect(Link(ser, is_connected))

----------------------------------------------------------------------------
(* Properties of the sequencer, continued, checked under SpecMain *)

\* C18: an iteration of main() whose frame acquisition fails leaves the
\* loop running (and reports no target); it does not end the process.
C18_FailedFrameContinues ==
    [][MainFrameFailed => (main_pc' = "loop" /\ best_target' = None)]_vars

----------------------------------------------------------------------------
(* Properties of the colour segmenter, checked under SpecDetector *)

\* C20: detect_color does not raise and returns no mask (None stands for the
\* empty mask) both when the frame is invalid or empty and when the colour
\* class asked for is not configured.
C20_NoMaskNoRaise ==
    (detect_op = "detect_color"
        /\ (detect_args[1].kind = "none"
               \/ detect_args[2] \notin DOMAIN hsv_thresholds))
        => detect_ret.kind = "none"

\* C21: no call of detect_color, detect_all_colors,
\* update_thresholds_if_needed, set_adaptation_factor,
\* set_light_change_threshold or enable_light_adaptation, at any brightness,
\* changes base_hsv_thresholds: it stays what __init__ loaded, and only the
\* working copy hsv_thresholds changes.
C21_BaseThresholdsKept ==
    [][base_hsv_thresholds' = base_hsv_thresholds]_vars

\* C21 witness: an update has made the working copy differ from the base.
C21_Witness ==
    /\ update_counter >= 1
    /\ hsv_thresholds # base_hsv_thresholds

----------------------------------------------------------------------------
(* Properties of the transport, continued, checked under SpecSerial *)

\* C22: when the bytes read from an open port are a valid frame (of two or
\* more parameters) behind one byte that is not the start byte, receive_data
\* finds the start byte and returns the command id and the parameters of the
\* frame.
C22_ScansForStart ==
    (Called("receive_data") /\ ser = "open" /\ Len(rx) >= 7
        /\ rx[1] # START_BYTE /\ Tail(rx) \in ValidFrames)
        => ret = ReturnsCommand(rx[3], SubSeq(rx, 4, Len(rx) - 2))

----------------------------------------------------------------------------
(* Properties of the two selection paths, checked under SpecSelect *)

\* the candidates with the highest score among the candidates
TopEligible ==
    {i \in Eligible :
        \A j \in Eligible :
            calculate_ball_priority(balls[j]) <= calculate_ball_priority(balls[i])}

\* C23: among the candidates (outside every zone, passing both checks) with
\* the highest score, get_best_target returns the one that is first in the
\* list of detected balls.
C23_EarliestOfEquals ==
    (Returned /\ Eligible # {}) =>
        LET first == CHOOSE i \in TopEligible : \A j \in TopEligible : i <= j
        IN  Detected(best_target) = balls[first]

\* C23 witness: two candidates of one colour at different places, the first
\* of the list is returned.
C23_Witness ==
    /\ Returned /\ Len(balls) = 2 /\ TopEligible = {1, 2}
    /\ balls[1] # balls[2]
    /\ Detected(best_target) = balls[1]

\* C30: with nothing held, the first pick done, the default configuration and
\* no detected ball inside a zone, the frame that send_multiple_balls writes
\* carries the class id of the colour of the ball that get_best_target
\* returns, for the same team and the same list.
C30_OnePriorityOrder ==
    (/\ Returned /\ ~first_pick /\ best_target # None
     /\ current_balls = <<>>
     /\ ball_priorities = DefaultPriorities /\ safety_zones = DefaultZones
     /\ \A i \in 1..Len(balls) : ~is_ball_in_safety_zone(balls[i])
     /\ serial_op = "send_multiple_balls" /\ ret.kind = "true")
        => wire[1][6] = color_to_id(best_target.color)

\* The loop of VisionCore.run is a running thread: once entered, it goes on to
\* its next iteration until it is left.
SpecCoreFair ==
    InitCore /\ [][NextCore]_vars /\ WF_vars(RunFrame \/ RunQuit \/ RunFrameFailed)

\* C24: a call of get_frame that returns None has made at most four reads in
\* its loop, one call of init_camera and one more read; run leaves its loop
\* with the iteration that brings restart_count to max_restarts, and the
\* camera is released then; hence, if from some point on no iteration of run
\* obtains a frame, run leaves its loop.
C24_BoundedFailure ==
    /\ [](/\ frame_reads.reads <= max_retries + 2
          /\ frame_reads.inits <= 1
          /\ (frame_reads.reads > max_retries + 1 => frame_reads.inits = 1))
    /\ [](run_pc = "loop" => restart_count < max_restarts)
    /\ [][run_pc = "loop" /\ restart_count' >= max_restarts
            => run_pc' = "released" /\ camera' # "open"]_vars
    /\ (<>[][~RunFrame]_vars => <>[](run_pc # "loop"))

\* C24 witness: run has left its loop after max_restarts failed iterations,
\* the last get_frame having used all its reads, and the camera is released.
C24_Witness ==
    /\ run_pc = "released"
    /\ restart_count = max_restarts
    /\ frame_reads = [reads |-> max_retries + 2, inits |-> 1]
    /\ camera = "closed"

\* the last call of a send operation got a link and well-formed arguments and
\* returned False: its write on the link failed
WriteFailed ==
    /\ ret.kind = "false"
    /\ connect_attempt # "failed"
    /\ \/ serial_op = "send_ball_data" /\ serial_args[3] \in Colors
       \/ serial_op = "send_stop"
       \/ serial_op = "send_grab_command"
       \/ serial_op = "send_place_command"
            /\ (IF serial_args[1] THEN serial_args[2] ELSE 0) \in 0..255
       \/ serial_op = "send_rotation"

\* C25: after a send operation (target report, stop, grasp, place, rotate)
\* whose write on the link failed, the link handle is closed and is_connected
\* is false, so that ensure_connected opens the link again in the next send.
C25_WriteFailureCloses ==
    WriteFailed => (ser # "open" /\ ~is_connected /\ NeedsConnect(Link(ser, is_connected)))

\* The loop of main() is a running thread: while it has not been left, it goes
\* on to its next iteration.
SpecMainFair == InitMain /\ [][NextMain]_vars /\ WF_vars(NextMain)

\* C26: in a run of main() whose iterations keep obtaining frames, a
\* sequencer that is in the search-zone state reaches the place state (and
\* from there the search-target state); it does not stay in the search-zone
\* state forever.
C26_LeavesSearchArea ==
    []<><<MainIteration>>_vars => (state = SEARCH_AREA ~> state = PLACE_BALL)

\* the frame that send_stop hands to the link
StopFrame ==
    send_stop(Link("open", TRUE), TRUE, TRUE).wire[1]

\* C27: the iteration of the approach state that sees the third frame in a
\* row without a valid target returns the sequencer to the search-target
\* state and writes a stop frame to the link (or its write has failed).
C27_StopOnLostTarget ==
    [][(/\ main_pc = "loop" /\ main_pc' = "loop"
        /\ state = APPROACH_BALL
        /\ no_ball_count >= 2
        /\ ~IsTarget(best_target'))
          => /\ state' = SEARCH_BALL
             /\ (wire' = <<StopFrame>> \/ ret'.kind = "false")]_vars

\* C28: no target-report frame (the 10-byte frames of send_ball_data, the
\* stop frame included) that main() has written in an iteration carries the
\* class id of the enemy colour.
C28_NoEnemyClassOnWire ==
    \A i \in 1..Len(wire) :
        Len(wire[i]) = Len(StopFrame) => wire[i][6] # color_to_id(enemy_color)

\* C29: run leaves its loop on camera errors only after max_restarts failed
\* iterations in a row; in particular the failed iteration that directly
\* follows a successfully processed frame (one that found a target, so that
\* best_target is set) does not end the loop.
C29_ConsecutiveOnly ==
    [][(run_pc = "loop" /\ best_target # None /\ RunFrameFailed)
          => run_pc' = "loop"]_vars

====
